---- MODULE Spec2Model ----
(***************************************************************************)
(* A model of wiki-search-rs: the Index Builder (index_builder.rs), the    *)
(* article task and XML driver (index_engine/index_engine.rs) and the      *)
(* Query Evaluator (query.rs, common.rs).                                  *)
(*                                                                         *)
(* Strings are sequences of one-character strings.  A HashMap is a TLA+    *)
(* function whose DOMAIN is the key set.  A file is a sequence of bytes,   *)
(* where a decimal number is kept as one byte [k |-> "num", v |-> n].      *)
(***************************************************************************)
EXTENDS Integers, Sequences, FiniteSets, TLC

\* ------------------------------------------------------------- bounds
\* index_article calls in one build
MaxIngests == 3
\* spill or store failures the environment may inject in one build
MaxIoErrors == 1
\* MAX_POSTINGS_LIST_SIZE (index_builder.rs:7) is 10000 in the source; the
\* model spills at a scaled threshold so that spills happen within MaxIngests.
MAX_POSTINGS_LIST_SIZE == 2
\* SNIPPET_OFFSET (common.rs:12) is 50 in the source; the model cuts its
\* snippets with a scaled offset so that a snippet is a proper part of a text.
SNIPPET_OFFSET == 1

\* ---------------------------------------------------- program constants
MAX_POSTINGS_LIST_DIRECTORY_SIZE == 1000
\* u32::MAX, the unset id of Article::new.  It lies outside the integers TLC
\* computes with; the model writes it as -1 (the same 32 bits, read as the i32
\* the builder takes its article ids in).
U32_MAX == -1

\* ------------------------------------------------------------- helpers
Put(m, k, v) == [x \in (DOMAIN m) \cup {k} |-> IF x = k THEN v ELSE m[x]]

EmptyMap == [x \in {} |-> 0]

Range(s) == {s[i] : i \in DOMAIN s}

\* "no such file"
NoFile == [exists |-> FALSE, map |-> EmptyMap]

\* a file holding a serialized map
MapFile(m) == [exists |-> TRUE, map |-> m]

\* -------------------------------------------------------------- Analyzer
\* char::to_lowercase on the model's alphabet
Lower(c) == IF c = "A" THEN "a" ELSE IF c = "B" THEN "b" ELSE c

\* "U+00E9" stands for a non-ASCII character
IsAscii(c) == c # "U+00E9"

\* char::is_alphanumeric on the (ASCII) cleaned text
is_alphanumeric(c) == c \in {"a", "b", "c", "s", "A", "B"} \cup {"0", "1", "2", "3", "4", "5", "6", "7", "8", "9"}

\* text.to_lowercase().replace(|c| !c.is_ascii(), "")
Clean(text) == SelectSeq([i \in DOMAIN text |-> Lower(text[i])], IsAscii)

\* rust_stemmers' English stemmer, an external crate: a deterministic map on
\* words that is not the identity (here: the plural "s" of a word of more than
\* two letters is dropped, as Snowball's step 1a does for "cats").
stem(w) == IF Len(w) > 2 /\ w[Len(w)] = "s" THEN SubSeq(w, 1, Len(w) - 1) ELSE w

\* the for loop of tokenize: i is the 0-based index of the next char, start
\* the 0-based start of the current run
RECURSIVE TokLoop(_, _, _, _)
TokLoop(text, i, start, tokens) ==
    IF i = Len(text)
    THEN IF start # Len(text)
         THEN Append(tokens, stem(SubSeq(text, start + 1, Len(text))))
         ELSE tokens
    ELSE IF ~is_alphanumeric(text[i + 1])
         THEN TokLoop(text, i + 1, i + 1,
                      IF start # i
                      THEN Append(tokens, stem(SubSeq(text, start + 1, i)))
                      ELSE tokens)
         ELSE TokLoop(text, i + 1, start, tokens)

tokenize(text) == TokLoop(Clean(text), 0, 0, <<>>)

\* the for loop of tokenize_with_positions: the map token -> start offsets
RECURSIVE PosLoop(_, _, _, _)
PosLoop(text, i, start, tokens) ==
    LET add(tok) == Put(tokens, tok,
                        Append(IF tok \in DOMAIN tokens THEN tokens[tok] ELSE <<>>,
                               start))
    IN IF i = Len(text)
       THEN IF start # Len(text)
            THEN add(stem(SubSeq(text, start + 1, Len(text))))
            ELSE tokens
       ELSE IF ~is_alphanumeric(text[i + 1])
            THEN PosLoop(text, i + 1, i + 1,
                         IF start # i
                         THEN add(stem(SubSeq(text, start + 1, i)))
                         ELSE tokens)
            ELSE PosLoop(text, i + 1, start, tokens)

tokenize_with_positions(text) == PosLoop(Clean(text), 0, 0, EmptyMap)

\* ----------------------------------------------------------------- state
VARIABLES
    cur_token_id,   \* IndexBuilder.cur_token_id
    id_to_token,    \* IndexBuilder.id_to_token
    token_to_id,    \* IndexBuilder.token_to_id
    inv_index,      \* IndexBuilder.inv_index: token id -> buffered postings
    doc_lengths,    \* IndexBuilder.doc_lengths
    files,          \* inv_index/<dir>/<token id>.txt: path -> bytes
    lexicon_file,   \* the persisted lexicon, or NoFile
    lengths_file,   \* the persisted article-length table, or NoFile
    articles,       \* the Article Store: id -> article record
    ingested,       \* history: the articles passed to build_index, in order
    io_errors,      \* history: injected I/O failures so far
    spill_failed,   \* history: a postings spill has failed in this build
    calls,          \* history: index_article calls so far
    outcomes,       \* history: what each index_article call returned
    phase,          \* "building" | "finalized" | "finalize_failed"
    search_out,     \* outcome of the last get_query_results call
    cur_tag,        \* parse_dump: the element whose character data is next
    cur_article,    \* parse_dump: the article under construction
    article_count,  \* parse_dump: pages completed
    drv,            \* parse_dump: "idle" | "running" | "cap" | "eos" | "err" | "panic"
    result,         \* parse_dump: the value returned, or NoResult
    first_id,       \* history: the data of the first <id> of the article under
                    \* construction, or NoId
    tasks,          \* the index_article futures created so far, in order
    mutex,          \* Mutex<IndexBuilder>: Unlocked, DriverHolds or a task's number
    pc,             \* parse_dump: "loop" | "await" | "write_lexicon" |
                    \* "write_inverted_index" | "returned"
    write_outs,     \* history: runs of the code after the event loop
    attempt,        \* execute_with_retry: iterations of the retry loop begun
    txn_result,     \* execute_with_retry: result, what transaction.execute returned
    result_commit,  \* execute_with_retry: what transaction.commit returned
    retry_pc,       \* execute_with_retry: "loop" | "execute" | "commit" |
                    \* "decide" | "returned"
    retry_out       \* execute_with_retry: the value returned, or NoReturn

vars == <<cur_token_id, id_to_token, token_to_id, inv_index, doc_lengths, files,
          lexicon_file, lengths_file, articles, ingested, io_errors,
          spill_failed, calls, outcomes, phase, search_out, cur_tag, cur_article,
          article_count, drv, result, first_id, tasks, mutex, pc, write_outs,
          attempt, txn_result, result_commit, retry_pc, retry_out>>

conc_vars == <<tasks, mutex, pc>>

retry_vars == <<attempt, txn_result, result_commit, retry_pc, retry_out>>

driver_vars == <<cur_tag, cur_article, article_count, drv, result, first_id>>

builder_vars == <<cur_token_id, id_to_token, token_to_id, inv_index, doc_lengths>>

\* ---------------------------------------------------------- IndexBuilder
\* The builder and the postings files it writes, as one record.
BuilderState ==
    [cur_token_id |-> cur_token_id, id_to_token |-> id_to_token,
     token_to_id |-> token_to_id, inv_index |-> inv_index,
     doc_lengths |-> doc_lengths, files |-> files]

\* IndexBuilder::new
NewBuilder ==
    [cur_token_id |-> 0, id_to_token |-> EmptyMap, token_to_id |-> EmptyMap,
     inv_index |-> EmptyMap, doc_lengths |-> EmptyMap, files |-> EmptyMap]

\* get_token_id without the increment of cur_token_id
get_token_id_no_increment(b, token) ==
    IF token \in DOMAIN b.token_to_id
    THEN [b |-> b, id |-> b.token_to_id[token]]
    ELSE [b |-> [b EXCEPT !.id_to_token = Put(@, b.cur_token_id, token),
                          !.token_to_id = Put(@, token, b.cur_token_id)],
          id |-> b.cur_token_id]

\* get_token_id: the builder after the call, and the id returned
get_token_id(b, token) ==
    IF token \in DOMAIN b.token_to_id
    THEN [b |-> b, id |-> b.token_to_id[token]]
    ELSE [b |-> [b EXCEPT !.id_to_token = Put(@, b.cur_token_id, token),
                          !.token_to_id = Put(@, token, b.cur_token_id),
                          !.cur_token_id = @ + 1],
          id |-> b.cur_token_id]

\* get_token_ids: the builder after the loop, and the ids pushed
RECURSIVE TokenIdsLoop(_, _, _, _)
TokenIdsLoop(b, tokens, i, token_ids) ==
    IF i > Len(tokens)
    THEN [b |-> b, token_ids |-> token_ids]
    ELSE LET r == get_token_id(b, tokens[i])
         IN TokenIdsLoop(r.b, tokens, i + 1, Append(token_ids, r.id))

\* get_token_ids walking the tokens from the last to the first
RECURSIVE TokenIdsBackLoop(_, _, _, _)
TokenIdsBackLoop(b, tokens, i, token_ids) ==
    IF i < 1
    THEN [b |-> b, token_ids |-> token_ids]
    ELSE LET r == get_token_id(b, tokens[i])
         IN TokenIdsBackLoop(r.b, tokens, i - 1, <<r.id>> \o token_ids)

get_token_ids_backwards(b, tokens) == TokenIdsBackLoop(b, tokens, Len(tokens), <<>>)

get_token_ids(b, tokens) == TokenIdsLoop(b, tokens, 1, <<>>)

\* count_words: entry(token_id).or_insert(0) += 1 for each id
RECURSIVE CountLoop(_, _, _)
CountLoop(token_ids, i, word_counts) ==
    IF i > Len(token_ids)
    THEN word_counts
    ELSE LET t == token_ids[i]
         IN CountLoop(token_ids, i + 1,
                      Put(word_counts, t,
                          (IF t \in DOMAIN word_counts THEN word_counts[t] ELSE 0) + 1))

\* count_words that inserts 1 for an id instead of adding 1
count_words_no_sum(token_ids) == [t \in Range(token_ids) |-> 1]

count_words(token_ids) == CountLoop(token_ids, 1, EmptyMap)

\* a byte of a postings file
Num(n) == [k |-> "num", v |-> n]
SP == [k |-> "sp", v |-> 0]
NL == [k |-> "nl", v |-> 0]

\* inv_index/<token_id / MAX_POSTINGS_LIST_DIRECTORY_SIZE>/<token_id>.txt
PostingsPath(token_id) == <<token_id \div MAX_POSTINGS_LIST_DIRECTORY_SIZE, token_id>>

\* format!("{} {}", article_id, count)
FormatEntry(e) == <<Num(e[1]), SP, Num(e[2])>>

\* the entries' lines .join("\n")
RECURSIVE JoinLines(_, _)
JoinLines(list, i) ==
    IF i > Len(list) THEN <<>>
    ELSE IF i = Len(list) THEN FormatEntry(list[i])
    ELSE FormatEntry(list[i]) \o <<NL>> \o JoinLines(list, i + 1)

\* postings_list_string: the joined lines and the pushed "\n"
PostingsListString(list) == JoinLines(list, 1) \o <<NL>>

\* the outcomes of the file system calls of one spill
IoOk == [ok |-> TRUE, written |-> 0]
IoErr(n) == [ok |-> FALSE, written |-> n]

\* update_inv_index_file with the file opened to be overwritten, not appended to
update_inv_index_file_truncating(b, token_id, io) ==
    IF ~io.ok \/ token_id \notin DOMAIN b.inv_index
    THEN [b |-> b, ok |-> FALSE]
    ELSE [b |-> [b EXCEPT
                   !.files = Put(@, PostingsPath(token_id),
                                 PostingsListString(b.inv_index[token_id])),
                   !.inv_index = Put(@, token_id, <<>>)],
          ok |-> TRUE]

\* update_inv_index_file that empties the buffer before it writes
update_inv_index_file_clearing(b, token_id, io) ==
    IF token_id \notin DOMAIN b.inv_index
    THEN [b |-> b, ok |-> FALSE]
    ELSE LET path == PostingsPath(token_id)
             old == IF path \in DOMAIN b.files THEN b.files[path] ELSE <<>>
             string == PostingsListString(b.inv_index[token_id])
         IN [b |-> [b EXCEPT
                      !.files = IF io.ok THEN Put(@, path, old \o string)
                                ELSE IF io.written = 0 THEN @
                                ELSE Put(@, path, old \o SubSeq(string, 1, io.written)),
                      !.inv_index = Put(@, token_id, <<>>)],
             ok |-> io.ok]

\* update_inv_index_file. io is the outcome of the file system calls: IoOk, or
\* IoErr(n) when one of them returns an error after n bytes of the batch have
\* reached the file (0 when create_dir_all, the open or the first write
\* fails; write_all may fail after a part of the string is written).  Returns
\* the builder after the call and whether the call returned Ok.
update_inv_index_file(b, token_id, io) ==
    IF token_id \notin DOMAIN b.inv_index
    THEN [b |-> b, ok |-> FALSE]
    ELSE LET path == PostingsPath(token_id)
             old == IF path \in DOMAIN b.files THEN b.files[path] ELSE <<>>
             string == PostingsListString(b.inv_index[token_id])
         IN IF io.ok
            THEN [b |-> [b EXCEPT !.files = Put(@, path, old \o string),
                                  !.inv_index = Put(@, token_id, <<>>)],
                  ok |-> TRUE]
            ELSE [b |-> IF io.written = 0 THEN b
                        ELSE [b EXCEPT
                                !.files = Put(@, path, old \o SubSeq(string, 1, io.written))],
                  ok |-> FALSE]

\* the loop body spilling only once the buffer is longer than the threshold
PushPosting_late(b, article_id, token_id, count, io) ==
    LET list == Append(IF token_id \in DOMAIN b.inv_index
                       THEN b.inv_index[token_id] ELSE <<>>,
                       <<article_id, count>>)
        b1 == [b EXCEPT !.inv_index = Put(@, token_id, list)]
    IN IF Len(list) > MAX_POSTINGS_LIST_SIZE
       THEN update_inv_index_file(b1, token_id, io).b
       ELSE b1

\* one iteration of update_inv_index's loop
PushPosting(b, article_id, token_id, count, io) ==
    LET list == Append(IF token_id \in DOMAIN b.inv_index
                       THEN b.inv_index[token_id] ELSE <<>>,
                       <<article_id, count>>)
        b1 == [b EXCEPT !.inv_index = Put(@, token_id, list)]
    IN IF Len(list) >= MAX_POSTINGS_LIST_SIZE
       THEN update_inv_index_file(b1, token_id, io).b
       ELSE b1

\* update_inv_index: the loop over word_counts (a HashMap: any order; the
\* iterations touch distinct token ids).  failing: for the token ids whose
\* spill, if one is triggered, fails, the bytes written before the error.
RECURSIVE InvIndexLoop(_, _, _, _, _)
InvIndexLoop(b, article_id, word_counts, left, failing) ==
    IF left = {}
    THEN b
    ELSE LET t == CHOOSE x \in left : TRUE
         IN InvIndexLoop(PushPosting(b, article_id, t, word_counts[t],
                                     IF t \in DOMAIN failing
                                     THEN IoErr(failing[t]) ELSE IoOk),
                         article_id, word_counts, left \ {t}, failing)

update_inv_index(b, article_id, word_counts, failing) ==
    InvIndexLoop(b, article_id, word_counts, DOMAIN word_counts, failing)

\* build_index recording the number of distinct tokens as the length
build_index_distinct_length(b, article, failing) ==
    LET tokens == tokenize(article.text)
        r == get_token_ids(b, tokens)
        word_counts == count_words(r.token_ids)
        b1 == update_inv_index(r.b, article.id, word_counts, failing)
    IN [b1 EXCEPT !.doc_lengths = Put(@, article.id, Cardinality(DOMAIN word_counts))]

\* build_index (the spec's ingest)
build_index(b, article, failing) ==
    LET tokens == tokenize(article.text)
        r == get_token_ids(b, tokens)
        word_counts == count_words(r.token_ids)
        b1 == update_inv_index(r.b, article.id, word_counts, failing)
    IN [b1 EXCEPT !.doc_lengths = Put(@, article.id, Len(tokens))]

\* the token ids whose buffer reaches the threshold when article is ingested
SpillingTokens(b, article) ==
    LET r == get_token_ids(b, tokenize(article.text))
    IN {t \in Range(r.token_ids) :
          (IF t \in DOMAIN b.inv_index THEN Len(b.inv_index[t]) ELSE 0) + 1
              >= MAX_POSTINGS_LIST_SIZE}

\* update_all_inv_index_files: the loop over a copy of the keys (any order),
\* left at the first error.  done: the token ids visited before the loop ends.
RECURSIVE UpdateAllLoop(_, _)
UpdateAllLoop(b, left) ==
    IF left = {}
    THEN b
    ELSE LET t == CHOOSE x \in left : TRUE
         IN UpdateAllLoop(update_inv_index_file(b, t, IoOk).b, left \ {t})

\* update_all_inv_index_files returning Ok after the first token id
update_all_inv_index_files_first_only(b, done) ==
    [b |-> IF done = {} THEN b
           ELSE update_inv_index_file(b, CHOOSE x \in done : TRUE, IoOk).b,
     ok |-> done = DOMAIN b.inv_index]

update_all_inv_index_files(b, done) ==
    [b |-> UpdateAllLoop(b, done), ok |-> done = DOMAIN b.inv_index]

\* write_lexicon, update_all_inv_index_files, write_doc_lengths: the end of a
\* build, in the order parse_dump calls them; an Err returns at once.
FinalizeBuild(b, done) ==
    LET r == update_all_inv_index_files(b, done)
    IN [b |-> r.b, ok |-> r.ok,
        lexicon_file |-> MapFile(b.id_to_token),
        lengths_file |-> IF r.ok THEN MapFile(b.doc_lengths) ELSE NoFile]

\* ------------------------------------------------------- Query Evaluator
IsNum(x) == x.k = "num"

\* BufRead::read_line: the length of the first line of f, its "\n" included
RECURSIVE LineLen(_, _)
LineLen(f, i) ==
    IF i > Len(f) THEN Len(f)
    ELSE IF f[i] = NL THEN i
    ELSE LineLen(f, i + 1)

\* read_postings_list_file: the while loop over the lines of f
RECURSIVE ReadLoop(_, _)
ReadLoop(f, postings_list) ==
    IF Len(f) = 0
    THEN [ok |-> TRUE, map |-> postings_list]
    ELSE LET n == LineLen(f, 1)
             line_split == SelectSeq(SubSeq(f, 1, n), IsNum)
         IN IF Len(line_split) < 2
               \/ line_split[1].v < 0 \/ line_split[2].v < 0
            THEN [ok |-> FALSE, map |-> EmptyMap]
            ELSE ReadLoop(SubSeq(f, n + 1, Len(f)),
                          Put(postings_list, line_split[1].v, line_split[2].v))

read_postings_list_file(f) == ReadLoop(f, EmptyMap)

\* get_postings_lists: the loop over query_token_ids, left at the first error
RECURSIVE PostingsLoop(_, _, _, _)
PostingsLoop(fs, query_token_ids, i, postings_lists) ==
    IF i > Len(query_token_ids)
    THEN [ok |-> TRUE, map |-> postings_lists]
    ELSE LET t == query_token_ids[i]
             path == PostingsPath(t)
         IN IF path \notin DOMAIN fs
            THEN [ok |-> FALSE, map |-> EmptyMap]
            ELSE LET r == read_postings_list_file(fs[path])
                 IN IF ~r.ok
                    THEN [ok |-> FALSE, map |-> EmptyMap]
                    ELSE PostingsLoop(fs, query_token_ids, i + 1,
                                      Put(postings_lists, t, r.map))

get_postings_lists(fs, query_token_ids) == PostingsLoop(fs, query_token_ids, 1, EmptyMap)

\* calculate_bm25, abstracted to the sign of the score: each query term with a
\* posting of frequency f > 0 for the article adds tf * qf * idf, which is
\* positive when the postings list is no longer than the article table.
ScoreSign(article_id, query_token_freqs, num_articles, postings_lists) ==
    LET hit == {t \in DOMAIN query_token_freqs :
                  /\ article_id \in DOMAIN postings_lists[t]
                  /\ postings_lists[t][article_id] > 0}
    IN IF hit = {} THEN "zero"
       ELSE IF \A t \in hit : Cardinality(DOMAIN postings_lists[t]) <= num_articles
       THEN "pos"
       ELSE "any"

\* the sorted scores: the article ids of the length table in an order that
\* scores.sort_by (descending) can produce
IsSortedOrder(order, ids, sign) ==
    /\ Len(order) = Cardinality(ids)
    /\ Range(order) = ids
    /\ \A i, j \in DOMAIN order :
         (sign[order[i]] = "zero" /\ sign[order[j]] = "pos") => j < i

\* get_article: the record of the Article Store
get_article(store, article_id) ==
    IF article_id \in DOMAIN store
    THEN [ok |-> TRUE, article |-> store[article_id]]
    ELSE [ok |-> FALSE, article |-> [id |-> article_id, title |-> <<>>, text |-> <<>>]]

Dots == <<".", ".", ".">>

\* the loop of get_article_snippet over query_token_freqs.iter(), without
\* the rev()
RECURSIVE SnippetLoop_ascending(_, _, _, _)
SnippetLoop_ascending(article_text, tokens_with_positions, left, lexicon) ==
    IF left = {}
    THEN [ok |-> FALSE, snippet |-> <<>>, anchor |-> -1]
    ELSE LET t == CHOOSE x \in left : \A y \in left : x <= y
         IN IF t \in DOMAIN lexicon
               /\ lexicon[t] \in DOMAIN tokens_with_positions
               /\ Len(tokens_with_positions[lexicon[t]]) > 0
            THEN LET position == tokens_with_positions[lexicon[t]][1]
                     start == IF position > SNIPPET_OFFSET
                              THEN position - SNIPPET_OFFSET ELSE 0
                     end == IF position + SNIPPET_OFFSET > Len(article_text)
                            THEN Len(article_text) ELSE position + SNIPPET_OFFSET
                     slice == SubSeq(article_text, start + 1, end)
                 IN [ok |-> TRUE,
                     snippet |-> Dots
                                 \o [i \in DOMAIN slice |->
                                       IF slice[i] = "\n" THEN " " ELSE slice[i]]
                                 \o Dots,
                     anchor |-> t]
            ELSE SnippetLoop_ascending(article_text, tokens_with_positions,
                                       left \ {t}, lexicon)

\* get_article_snippet: the loop over query_token_freqs.iter().rev()
RECURSIVE SnippetLoop(_, _, _, _)
SnippetLoop(article_text, tokens_with_positions, left, lexicon) ==
    IF left = {}
    THEN [ok |-> FALSE, snippet |-> <<>>, anchor |-> -1]
    ELSE LET t == CHOOSE x \in left : \A y \in left : y <= x
         IN IF t \in DOMAIN lexicon
               /\ lexicon[t] \in DOMAIN tokens_with_positions
               /\ Len(tokens_with_positions[lexicon[t]]) > 0
            THEN LET position == tokens_with_positions[lexicon[t]][1]
                     start == IF position > SNIPPET_OFFSET
                              THEN position - SNIPPET_OFFSET ELSE 0
                     end == IF position + SNIPPET_OFFSET > Len(article_text)
                            THEN Len(article_text) ELSE position + SNIPPET_OFFSET
                     slice == SubSeq(article_text, start + 1, end)
                 IN [ok |-> TRUE,
                     snippet |-> Dots
                                 \o [i \in DOMAIN slice |->
                                       IF slice[i] = "\n" THEN " " ELSE slice[i]]
                                 \o Dots,
                     anchor |-> t]
            ELSE SnippetLoop(article_text, tokens_with_positions, left \ {t}, lexicon)

get_article_snippet(text, query_token_freqs, lexicon) ==
    LET article_text == SelectSeq(text, IsAscii)
    IN SnippetLoop(article_text, tokenize_with_positions(article_text),
                   DOMAIN query_token_freqs, lexicon)

\* the loop over &scores[..num_max_results]
RECURSIVE ResultsLoop(_, _, _, _, _, _, _)
ResultsLoop(order, sign, i, n, store, query_token_freqs, lexicon) ==
    IF i > n
    THEN <<>>
    ELSE LET a == get_article(store, order[i])
             rest == ResultsLoop(order, sign, i + 1, n, store, query_token_freqs, lexicon)
         IN IF ~a.ok
            THEN rest
            ELSE LET sn == get_article_snippet(a.article.text, query_token_freqs, lexicon)
                 IN IF ~sn.ok
                    THEN rest
                    ELSE <<[article_id |-> order[i], title |-> a.article.title,
                            snippet |-> sn.snippet, score |-> sign[order[i]]]>> \o rest

\* the query's token ids: the tokens found in reverse_lexicon, in order
QueryTokenIds(lexicon, query) ==
    LET toks == tokenize(query)
        reverse_lexicon == [tok \in Range(lexicon) |->
                              CHOOSE id \in DOMAIN lexicon : lexicon[id] = tok]
        known == SelectSeq(toks, LAMBDA tok : tok \in DOMAIN reverse_lexicon)
    IN [i \in DOMAIN known |-> reverse_lexicon[known[i]]]

\* query_token_freqs: the fold into a BTreeMap
QueryTokenFreqs(query_token_ids) ==
    [t \in Range(query_token_ids) |->
       Cardinality({i \in DOMAIN query_token_ids : query_token_ids[i] = t})]

\* the ScoreSign of every article of the length table
Signs(article_lengths, query_token_freqs, postings_lists) ==
    [a \in DOMAIN article_lengths |->
       ScoreSign(a, query_token_freqs, Cardinality(DOMAIN article_lengths),
                 postings_lists)]

\* the slice &scores[..num_max_results]: its length, or -1 for the panic of a
\* range end past the end of the vector
TopSlice(order, num_max_results) ==
    IF num_max_results > Len(order) THEN -1 ELSE num_max_results

\* get_query_results.  order: the sorted scores.  status "Ok" | "Err" | "panic".
get_query_results(query, num_max_results, order, disk) ==
    IF ~disk.lengths_file.exists \/ ~disk.lexicon_file.exists
    THEN [status |-> "Err", results |-> <<>>, query |-> query, k |-> num_max_results,
          scores |-> <<>>]
    ELSE LET lexicon == disk.lexicon_file.map
             query_token_ids == QueryTokenIds(lexicon, query)
             query_token_freqs == QueryTokenFreqs(query_token_ids)
             pl == get_postings_lists(disk.files, query_token_ids)
         IN IF ~pl.ok
            THEN [status |-> "Err", results |-> <<>>, query |-> query,
                  k |-> num_max_results, scores |-> <<>>]
            ELSE LET n == TopSlice(order, num_max_results)
                 IN IF n < 0
                    THEN [status |-> "panic", results |-> <<>>, query |-> query,
                          k |-> num_max_results, scores |-> <<>>]
                    ELSE [status |-> "Ok", query |-> query, k |-> num_max_results,
                          scores |-> order,
                          results |-> ResultsLoop(order,
                                         Signs(disk.lengths_file.map, query_token_freqs, pl.map),
                                         1, n, disk.articles, query_token_freqs, lexicon)]

\* the orders the sort can leave the scores in (every order when the query
\* fails before scoring)
SortedOrders(query, disk) ==
    IF ~disk.lengths_file.exists \/ ~disk.lexicon_file.exists
    THEN {<<>>}
    ELSE LET ids == DOMAIN disk.lengths_file.map
             query_token_ids == QueryTokenIds(disk.lexicon_file.map, query)
             pl == get_postings_lists(disk.files, query_token_ids)
         IN IF ~pl.ok
            THEN {<<>>}
            ELSE LET sign == Signs(disk.lengths_file.map, QueryTokenFreqs(query_token_ids), pl.map)
                 IN {o \in [1..Cardinality(ids) -> ids] : IsSortedOrder(o, ids, sign)}

Disk ==
    [files |-> files, lexicon_file |-> lexicon_file, lengths_file |-> lengths_file,
     articles |-> articles]

\* ---------------------------------------------------------- the article task
\* Article::new
NewArticle == [id |-> U32_MAX, title |-> <<>>, text |-> <<>>]

\* what an article task and the end of the build read and write
TaskState ==
    [b |-> BuilderState, articles |-> articles, ingested |-> ingested,
     io_errors |-> io_errors, spill_failed |-> spill_failed, calls |-> calls,
     outcomes |-> outcomes, write_outs |-> write_outs,
     lexicon_file |-> lexicon_file, lengths_file |-> lengths_file, phase |-> phase]

\* what insert_article's execute_with_retry did: returned Ok with the row
\* committed; returned Ok for a row whose commit failed with an error that is
\* not retried; returned Err (as does a failing get_connection)
StoreOk == [ok |-> TRUE, committed |-> TRUE]
StoreLost == [ok |-> TRUE, committed |-> FALSE]
StoreErr == [ok |-> FALSE, committed |-> FALSE]

\* snippet_engine.insert_article: the Article Store write.  store: what its
\* execute_with_retry did; insert_article returns Ok when store.ok.
insert_article(ts, article, store) ==
    IF store.committed
    THEN [ts EXCEPT !.articles = Put(@, article.id, article)]
    ELSE [ts EXCEPT !.io_errors = @ + 1]

\* index_builder.lock().await.build_index(&article): the ingest, made while
\* the mutex guard lives
locked_build_index(ts, article, failing) ==
    [ts EXCEPT !.b = build_index(@, article, failing),
               !.ingested = Append(@, article),
               !.io_errors = @ + Cardinality(DOMAIN failing),
               !.spill_failed = (@ \/ DOMAIN failing # {})]

\* index_article: the Article Store write, then the builder's build_index.
\* store: what insert_article's execute_with_retry did.
index_article(ts, article, store, failing) ==
    LET ts1 == [ts EXCEPT !.calls = @ + 1]
    IN IF ~store.ok
       THEN [insert_article(ts1, article, store) EXCEPT !.outcomes = Append(@, "Err")]
       ELSE [locked_build_index(insert_article(ts1, article, store), article, failing)
               EXCEPT !.outcomes = Append(@, "Ok")]

\* index_builder.lock().await.write_lexicon(..): the first step of the code
\* after the event loop
write_lexicon(ts) ==
    [ts EXCEPT !.lexicon_file = MapFile(ts.b.id_to_token),
               !.write_outs = @ + 1]

\* index_builder.lock().await.write_inverted_index(..): the postings and the
\* length table
write_inverted_index(ts, done) ==
    LET r == FinalizeBuild(ts.b, done)
    IN [ts EXCEPT !.b = r.b,
                  !.lengths_file = r.lengths_file,
                  !.phase = IF r.ok THEN "finalized" ELSE "finalize_failed",
                  !.io_errors = IF r.ok THEN @ ELSE @ + 1,
                  !.spill_failed = (@ \/ ~r.ok)]

\* the end of the build: the lexicon, the postings and the length table
finalize(ts, done) == write_inverted_index(write_lexicon(ts), done)

\* the next state's builder, disk and history variables
Becomes(ts) ==
    /\ cur_token_id' = ts.b.cur_token_id
    /\ id_to_token' = ts.b.id_to_token
    /\ token_to_id' = ts.b.token_to_id
    /\ inv_index' = ts.b.inv_index
    /\ doc_lengths' = ts.b.doc_lengths
    /\ files' = ts.b.files
    /\ articles' = ts.articles
    /\ ingested' = ts.ingested
    /\ io_errors' = ts.io_errors
    /\ spill_failed' = ts.spill_failed
    /\ calls' = ts.calls
    /\ outcomes' = ts.outcomes
    /\ write_outs' = ts.write_outs
    /\ lexicon_file' = ts.lexicon_file
    /\ lengths_file' = ts.lengths_file
    /\ phase' = ts.phase

task_vars == <<cur_token_id, id_to_token, token_to_id, inv_index, doc_lengths,
               files, articles, ingested, io_errors, spill_failed, calls, outcomes,
               write_outs, lexicon_file, lengths_file, phase>>

\* the subsets of the buffered token ids a finalize may get through
FinalizeRuns(ts) ==
    {done \in SUBSET (DOMAIN ts.b.inv_index) :
       done = DOMAIN ts.b.inv_index \/ ts.io_errors < MaxIoErrors}

\* the bytes of a batch a failing spill may leave in the file: none, the
\* first number of the first line, or the whole first line
TornBytes == {0, 1, Len(PostingsListString(<<<<0, 0>>>>))}

\* the spill failures the environment may inject into one ingest, each
\* leaving one of bytes in the file
FailuresWriting(ts, article, bytes) ==
    UNION {[tokens -> bytes] :
             tokens \in {f \in SUBSET SpillingTokens(ts.b, article) :
                           ts.io_errors + Cardinality(f) <= MaxIoErrors}}

\* the spill failures that write nothing (create_dir_all or the open fails)
SpillFailures(ts, article) == FailuresWriting(ts, article, {0})

\* the outcomes of one index_article call the environment may choose
TaskOutcomes(ts, article) ==
    {index_article(ts, article, StoreOk, failing) :
       failing \in SpillFailures(ts, article)}
    \cup (IF ts.io_errors < MaxIoErrors
          THEN {index_article(ts, article, StoreErr, EmptyMap)} ELSE {})

\* the outcomes of one index_article call when a failing write may be torn
\* and a commit may fail
TornOutcomes(ts, article) ==
    {index_article(ts, article, StoreOk, failing) :
       failing \in FailuresWriting(ts, article, TornBytes)}
    \cup (IF ts.io_errors < MaxIoErrors
          THEN {index_article(ts, article, StoreErr, EmptyMap)}
               \cup {index_article(ts, article, StoreLost, failing) :
                       failing \in FailuresWriting([ts EXCEPT !.io_errors = @ + 1],
                                                   article, TornBytes)}
          ELSE {})

\* ------------------------------------------------- builder and query: Spec
ArticleIds == {1, 2, 3}

\* "A a b" (tokens a, a, b), "<U+00E9>abs,b" (tokens ab, b), ""
Texts ==
    { <<"A", " ", "a", " ", "b">>,
      <<"U+00E9", "a", "b", "s", ",", "b">>,
      <<>> }

Titles == { <<"t">> }

Articles == [id : ArticleIds, title : Titles, text : Texts]

\* "a b", "c", "Abs a"
Queries == { <<"a", " ", "b">>, <<"c">>, <<"A", "b", "s", " ", "a">> }

\* num_max_results: fewer than the articles of a full build, and the command
\* line's default
KValues == {2, 10}

\* the values of mutex that are no task number
Unlocked == 0
DriverHolds == -1

\* no <id> character data seen yet
NoId == <<>>

\* transaction.execute or transaction.commit has not been called in this
\* iteration
NoOutcome == [kind |-> "none", code |-> "", rows |-> 0]

\* execute_with_retry has not returned
NoReturn == [status |-> "none", rows |-> 0, what |-> ""]

\* parse_dump has not returned
NoResult == [status |-> "none", what |-> "", id |-> 0, count |-> 0]

NoSearch ==
    [status |-> "none", results |-> <<>>, query |-> <<>>, k |-> 0, scores |-> <<>>,
     unreadable |-> {}]

\* the article files that cannot be opened or parsed when a query runs: none,
\* or the one of a single article
LostSets == {{}} \cup {{a} : a \in ArticleIds}

\* the stored articles whose files a query with ranking order reads: those of
\* scores[..num_max_results], none when the slice panics
Loaded(order, k) ==
    IF k > Len(order) THEN {}
    ELSE {order[i] : i \in 1..k} \cap DOMAIN articles

\* the index directory a query reads, without the article files of lost
DiskWithout(lost) ==
    [Disk EXCEPT !.articles = [a \in (DOMAIN articles) \ lost |-> articles[a]]]

\* what a call of get_query_results returned, with the inputs it ran on and
\* the article files get_article failed to load: the loop over
\* scores[..num_max_results] is the only reader of article files, and it is
\* not entered when the call fails or panics before it
Searched(r, lost) ==
    [status |-> r.status, results |-> r.results, query |-> r.query, k |-> r.k,
     scores |-> r.scores,
     unreadable |-> IF r.status = "Ok"
                    THEN {a \in lost : \E i \in 1..r.k : r.scores[i] = a}
                    ELSE {}]

InitBuilder ==
    /\ cur_token_id = NewBuilder.cur_token_id
    /\ id_to_token = NewBuilder.id_to_token
    /\ token_to_id = NewBuilder.token_to_id
    /\ inv_index = NewBuilder.inv_index
    /\ doc_lengths = NewBuilder.doc_lengths
    /\ files = NewBuilder.files
    /\ lexicon_file = NoFile
    /\ lengths_file = NoFile
    /\ articles = EmptyMap
    /\ ingested = <<>>
    /\ io_errors = 0
    /\ spill_failed = FALSE
    /\ calls = 0
    /\ outcomes = <<>>
    /\ write_outs = 0
    /\ phase = "building"
    /\ search_out = NoSearch
    /\ cur_tag = "Other"
    /\ cur_article = NewArticle
    /\ article_count = 0
    /\ result = NoResult
    /\ first_id = NoId
    /\ tasks = <<>>
    /\ mutex = Unlocked
    /\ pc = "loop"
    /\ attempt = 0
    /\ txn_result = NoOutcome
    /\ result_commit = NoOutcome
    /\ retry_pc = "loop"
    /\ retry_out = NoReturn

Init ==
    /\ InitBuilder
    /\ drv = "idle"

IndexArticle ==
    /\ phase = "building"
    /\ calls < MaxIngests
    /\ \E article \in Articles :
         \E ts \in TaskOutcomes(TaskState, article) : Becomes(ts)
    /\ UNCHANGED <<search_out, driver_vars>>
    /\ UNCHANGED conc_vars
    /\ UNCHANGED retry_vars

Finalize ==
    /\ phase = "building"
    /\ \E done \in FinalizeRuns(TaskState) : Becomes(finalize(TaskState, done))
    /\ UNCHANGED <<search_out, driver_vars>>
    /\ UNCHANGED conc_vars
    /\ UNCHANGED retry_vars

Search ==
    /\ phase # "building"
    /\ search_out = NoSearch
    /\ \E query \in Queries, k \in KValues :
         \E order \in SortedOrders(query, Disk) :
            \E lost \in {l \in LostSets : l \subseteq Loaded(order, k)} :
               search_out' =
                   Searched(get_query_results(query, k, order, DiskWithout(lost)), lost)
    /\ UNCHANGED <<task_vars, driver_vars>>
    /\ UNCHANGED conc_vars
    /\ UNCHANGED retry_vars

Next == IndexArticle \/ Finalize \/ Search

Spec == Init /\ [][Next]_vars

\* ------------------------------------- the builder on a failing disk: SpecSpill
\* Spec injects the spill failures that leave the file as it was and the
\* store failures insert_article reports; here a failing spill may also leave
\* a part of its batch in the file, and the commit of the Article Store write
\* may fail with an error execute_with_retry does not retry.
IndexArticleTorn ==
    /\ phase = "building"
    /\ calls < MaxIngests
    /\ \E article \in Articles :
         \E ts \in TornOutcomes(TaskState, article) : Becomes(ts)
    /\ UNCHANGED <<search_out, driver_vars>>
    /\ UNCHANGED conc_vars
    /\ UNCHANGED retry_vars

NextSpill == IndexArticleTorn \/ Finalize

SpecSpill == Init /\ [][NextSpill]_vars

\* ------------------------------------------------- the driver: SpecDriver
\* pages one build may complete
MaxPages == 2

MAX_ARTICLES == 10000

Digits == <<"0", "1", "2", "3", "4", "5", "6", "7", "8", "9">>

IsDigit(c) == \E i \in DOMAIN Digits : Digits[i] = c

DigitVal(c) == (CHOOSE i \in DOMAIN Digits : Digits[i] = c) - 1

RECURSIVE DecimalValue(_, _)
DecimalValue(chars, n) ==
    IF n = 0 THEN 0
    ELSE 10 * DecimalValue(chars, n - 1) + DigitVal(chars[n])

\* the decimal digits of u32::MAX, 4294967295
U32MaxDigits == <<"4", "2", "9", "4", "9", "6", "7", "2", "9", "5">>

\* chars.parse::<u32>(), for digit strings of at most nine characters and for
\* the digits of u32::MAX
ParseU32(chars) ==
    IF chars = U32MaxDigits
    THEN [ok |-> TRUE, v |-> U32_MAX]
    ELSE IF Len(chars) > 0 /\ \A i \in DOMAIN chars : IsDigit(chars[i])
    THEN [ok |-> TRUE, v |-> DecimalValue(chars, Len(chars))]
    ELSE [ok |-> FALSE, v |-> 0]

\* Article::parsed_id
parsed_id(article) == article.id # U32_MAX

ElementNames == {"title", "id", "text", "page", "revision"}

\* the character data of the stream's <id> elements: "7", "10000", "b a",
\* "4294967295"
IdData == { <<"7">>, <<"1", "0", "0", "0", "0">>, <<"b", " ", "a">>, U32MaxDigits }

\* the character data of its <text> elements: "b a", "a"
TextData == { <<"b", " ", "a">>, <<"a">> }

CharData == IdData \cup TextData \cup Titles

\* the character data the stream holds inside the element cur_tag stands for
CharDataOf(tag) ==
    IF tag = "Id" THEN IdData
    ELSE IF tag = "Text" THEN TextData
    ELSE Titles

\* the stream is followed up to the end of its MaxPages-th page
MoreEvents == drv = "running" /\ pc = "loop" /\ article_count < MaxPages

\* the match on name.local_name of a StartElement
TagOf(name) ==
    IF name = "title" THEN "Title"
    ELSE IF name = "id" THEN "Id"
    ELSE IF name = "text" THEN "Text"
    ELSE "Other"

\* the value parse_dump returns after the loop: Ok(article_count), or the
\* Err of the write-out that failed
ReturnOf(ts, count) ==
    IF ts.phase = "finalized"
    THEN [status |-> "Ok", what |-> "", id |-> 0, count |-> count]
    ELSE [status |-> "Err", what |-> "Error writing inverted index",
          id |-> 0, count |-> 0]

\* the id test that ends the event loop
ReachedCap(article) == article.id = MAX_ARTICLES

InitDriver ==
    /\ InitBuilder
    /\ drv = "running"

StartElement ==
    /\ MoreEvents
    /\ \E name \in ElementNames : cur_tag' = TagOf(name)
    /\ UNCHANGED <<task_vars, search_out, cur_article, article_count, drv, result,
                   first_id>>
    /\ UNCHANGED conc_vars
    /\ UNCHANGED retry_vars

\* EndElement returning the Err of index_article (a "?" in place of the
\* if let Err that logs it)
EndElement_propagating ==
    /\ MoreEvents
    /\ \E name \in ElementNames :
         /\ cur_tag' = "Other"
         /\ IF name = "page"
            THEN /\ article_count' = article_count + 1
                 /\ \E ts \in TaskOutcomes(TaskState, cur_article) :
                      IF ts.outcomes[Len(ts.outcomes)] = "Err"
                      THEN /\ Becomes(ts)
                           /\ drv' = "err"
                           /\ result' = [status |-> "Err", what |-> "Error indexing article",
                                         id |-> cur_article.id, count |-> 0]
                           /\ UNCHANGED <<cur_article, first_id>>
                      ELSE IF ReachedCap(cur_article)
                      THEN /\ \E done \in FinalizeRuns(ts) :
                                /\ Becomes(finalize(ts, done))
                                /\ result' = ReturnOf(finalize(ts, done), article_count + 1)
                           /\ drv' = "cap"
                           /\ UNCHANGED <<cur_article, first_id>>
                      ELSE /\ Becomes(ts)
                           /\ cur_article' = NewArticle
                           /\ first_id' = NoId
                           /\ UNCHANGED <<drv, result>>
            ELSE UNCHANGED <<task_vars, cur_article, article_count, drv, result,
                             first_id>>
    /\ UNCHANGED search_out
    /\ UNCHANGED conc_vars
    /\ UNCHANGED retry_vars

\* EndElement without the assignment cur_article = Article::new() that follows
\* the cap test
EndElement_keeping ==
    /\ MoreEvents
    /\ \E name \in ElementNames :
         /\ cur_tag' = "Other"
         /\ IF name = "page"
            THEN /\ article_count' = article_count + 1
                 /\ \E ts \in TaskOutcomes(TaskState, cur_article) :
                      IF ReachedCap(cur_article)
                      THEN /\ \E done \in FinalizeRuns(ts) :
                                /\ Becomes(finalize(ts, done))
                                /\ result' = ReturnOf(finalize(ts, done), article_count + 1)
                           /\ drv' = "cap"
                           /\ UNCHANGED <<cur_article, first_id>>
                      ELSE /\ Becomes(ts)
                           /\ UNCHANGED <<cur_article, first_id, drv, result>>
            ELSE UNCHANGED <<task_vars, cur_article, article_count, drv, result,
                             first_id>>
    /\ UNCHANGED search_out
    /\ UNCHANGED conc_vars
    /\ UNCHANGED retry_vars

\* EndElement.  At </page>: the article task, then either the break and the
\* code after the loop (the lexicon and postings write-out), or the reset.
EndElement ==
    /\ MoreEvents
    /\ \E name \in ElementNames :
         /\ cur_tag' = "Other"
         /\ IF name = "page"
            THEN /\ article_count' = article_count + 1
                 /\ \E ts \in TaskOutcomes(TaskState, cur_article) :
                      IF ReachedCap(cur_article)
                      THEN /\ \E done \in FinalizeRuns(ts) :
                                /\ Becomes(finalize(ts, done))
                                /\ result' = ReturnOf(finalize(ts, done), article_count + 1)
                           /\ drv' = "cap"
                           /\ UNCHANGED <<cur_article, first_id>>
                      ELSE /\ Becomes(ts)
                           /\ cur_article' = NewArticle
                           /\ first_id' = NoId
                           /\ UNCHANGED <<drv, result>>
            ELSE UNCHANGED <<task_vars, cur_article, article_count, drv, result,
                             first_id>>
    /\ UNCHANGED search_out
    /\ UNCHANGED conc_vars
    /\ UNCHANGED retry_vars

Characters ==
    /\ MoreEvents
    /\ \E chars \in CharDataOf(cur_tag) :
         /\ first_id' = IF cur_tag = "Id" /\ first_id = NoId THEN chars ELSE first_id
         /\ CASE cur_tag = "Title" ->
                /\ cur_article' = [cur_article EXCEPT !.title = chars]
                /\ UNCHANGED drv
           [] cur_tag = "Id" ->
                IF ~parsed_id(cur_article)
                THEN LET r == ParseU32(chars)
                     IN IF r.ok
                        THEN /\ cur_article' = [cur_article EXCEPT !.id = r.v]
                             /\ UNCHANGED drv
                        ELSE /\ drv' = "panic"
                             /\ UNCHANGED cur_article
                ELSE UNCHANGED <<cur_article, drv>>
           [] cur_tag = "Text" ->
                /\ cur_article' = [cur_article EXCEPT !.text = chars]
                /\ UNCHANGED drv
           [] OTHER -> UNCHANGED <<cur_article, drv>>
    /\ UNCHANGED <<task_vars, search_out, cur_tag, article_count, result>>
    /\ UNCHANGED conc_vars
    /\ UNCHANGED retry_vars

\* an Err event that leaves the loop by break, not by return: the code after
\* the loop runs
StreamError_breaking ==
    /\ drv = "running"
    /\ \E done \in FinalizeRuns(TaskState) :
         /\ Becomes(finalize(TaskState, done))
         /\ result' = ReturnOf(finalize(TaskState, done), article_count)
    /\ drv' = "err"
    /\ UNCHANGED <<search_out, cur_tag, cur_article, article_count, first_id>>
    /\ UNCHANGED conc_vars
    /\ UNCHANGED retry_vars

\* an Err event of the XML reader: parse_dump returns Err
StreamError ==
    /\ drv = "running"
    /\ pc = "loop"
    /\ drv' = "err"
    /\ result' = [status |-> "Err", what |-> "Failed to parse XML at index",
                  id |-> cur_article.id, count |-> 0]
    /\ UNCHANGED <<task_vars, search_out, cur_tag, cur_article, article_count,
                   first_id>>
    /\ UNCHANGED conc_vars
    /\ UNCHANGED retry_vars

\* the event iterator ends: the code after the loop
EndOfStream ==
    /\ drv = "running"
    /\ \E done \in FinalizeRuns(TaskState) :
         /\ Becomes(finalize(TaskState, done))
         /\ result' = ReturnOf(finalize(TaskState, done), article_count)
    /\ drv' = "eos"
    /\ UNCHANGED <<search_out, cur_tag, cur_article, article_count, first_id>>
    /\ UNCHANGED conc_vars
    /\ UNCHANGED retry_vars

NextDriver == StartElement \/ EndElement \/ Characters \/ StreamError \/ EndOfStream

SpecDriver == InitDriver /\ [][NextDriver]_vars

\* --------------------------------- the driver and its tasks: SpecTasks
\* parse_dump and index_article followed from one await point to the next.

\* index_article with the builder locked before the Article Store write
TaskProgram_locking_first == <<"lock", "insert_article", "build_index">>

\* index_article: the steps between its await points.  The guard of "lock"
\* is dropped when the statement of build_index ends.
TaskProgram == <<"insert_article", "lock", "build_index">>

\* the future index_article(cur_article.clone(), ..) returns
NewTask(article) == [article |-> article, at |-> 1, ret |-> "none"]

\* the task after one of its steps
Advance(t) ==
    IF t.at = Len(TaskProgram)
    THEN [t EXCEPT !.at = @ + 1, !.ret = "Ok"]
    ELSE [t EXCEPT !.at = @ + 1]

\* the outcomes of insert_article the environment may choose
StoreOutcomes == {StoreOk} \cup (IF io_errors < MaxIoErrors THEN {StoreErr} ELSE {})

\* EndElement that leaves the future to the runtime and goes on with the
\* loop (a spawn in place of the .await)
EndElementAwait_spawning ==
    /\ MoreEvents
    /\ \E name \in ElementNames :
         /\ cur_tag' = "Other"
         /\ IF name = "page"
            THEN /\ article_count' = article_count + 1
                 /\ Becomes([TaskState EXCEPT !.calls = @ + 1])
                 /\ tasks' = Append(tasks, NewTask(cur_article))
                 /\ cur_article' = NewArticle
                 /\ first_id' = NoId
                 /\ UNCHANGED pc
            ELSE UNCHANGED <<task_vars, article_count, tasks, pc, cur_article, first_id>>
    /\ UNCHANGED <<search_out, drv, result, mutex>>
    /\ UNCHANGED retry_vars

\* EndElement up to the .await of index_article
EndElementAwait ==
    /\ MoreEvents
    /\ \E name \in ElementNames :
         /\ cur_tag' = "Other"
         /\ IF name = "page"
            THEN /\ article_count' = article_count + 1
                 /\ Becomes([TaskState EXCEPT !.calls = @ + 1])
                 /\ tasks' = Append(tasks, NewTask(cur_article))
                 /\ pc' = "await"
            ELSE UNCHANGED <<task_vars, article_count, tasks, pc>>
    /\ UNCHANGED <<search_out, cur_article, drv, result, first_id, mutex>>
    /\ UNCHANGED retry_vars

\* one step of a pending index_article future
TaskStep ==
    \E i \in DOMAIN tasks :
       /\ tasks[i].ret = "none"
       /\ LET step == TaskProgram[tasks[i].at]
              article == tasks[i].article
          IN CASE step = "insert_article" ->
                    \E store \in StoreOutcomes :
                       /\ Becomes(insert_article(TaskState, article, store))
                       /\ tasks' = [tasks EXCEPT ![i] =
                                      IF store.ok THEN Advance(@)
                                      ELSE [@ EXCEPT !.ret = "Err"]]
                       /\ mutex' = IF ~store.ok /\ mutex = i THEN Unlocked ELSE mutex
               [] step = "lock" ->
                    /\ mutex = Unlocked
                    /\ mutex' = i
                    /\ tasks' = [tasks EXCEPT ![i] = Advance(@)]
                    /\ UNCHANGED task_vars
               [] OTHER ->
                    \E failing \in SpillFailures(TaskState, article) :
                       /\ Becomes(locked_build_index(TaskState, article, failing))
                       /\ tasks' = [tasks EXCEPT ![i] = Advance(@)]
                       /\ mutex' = Unlocked
       /\ UNCHANGED <<search_out, driver_vars, pc, retry_vars>>

\* the rest of the EndElement arm with a return Ok(article_count) at the id
\* test in place of the break
ResumeAfterAwait_returning ==
    /\ pc = "await"
    /\ tasks[Len(tasks)].ret # "none"
    /\ Becomes([TaskState EXCEPT !.outcomes = Append(@, tasks[Len(tasks)].ret)])
    /\ IF ReachedCap(cur_article)
       THEN /\ drv' = "cap"
            /\ pc' = "returned"
            /\ result' = [status |-> "Ok", what |-> "", id |-> 0, count |-> article_count]
            /\ UNCHANGED <<cur_article, first_id>>
       ELSE /\ cur_article' = NewArticle
            /\ first_id' = NoId
            /\ pc' = "loop"
            /\ UNCHANGED <<drv, result>>
    /\ UNCHANGED <<search_out, cur_tag, article_count, tasks, mutex>>
    /\ UNCHANGED retry_vars

\* the rest of the EndElement arm entered without waiting for the future to
\* be ready
ResumeAfterAwait_unready ==
    /\ pc = "await"
    /\ Becomes([TaskState EXCEPT !.outcomes = Append(@, tasks[Len(tasks)].ret)])
    /\ IF ReachedCap(cur_article)
       THEN /\ drv' = "cap"
            /\ pc' = "write_lexicon"
            /\ UNCHANGED <<cur_article, first_id>>
       ELSE /\ cur_article' = NewArticle
            /\ first_id' = NoId
            /\ pc' = "loop"
            /\ UNCHANGED drv
    /\ UNCHANGED <<search_out, cur_tag, article_count, result, tasks, mutex>>
    /\ UNCHANGED retry_vars

\* the awaited future is ready: the rest of the EndElement arm
ResumeAfterAwait ==
    /\ pc = "await"
    /\ tasks[Len(tasks)].ret # "none"
    /\ Becomes([TaskState EXCEPT !.outcomes = Append(@, tasks[Len(tasks)].ret)])
    /\ IF ReachedCap(cur_article)
       THEN /\ drv' = "cap"
            /\ pc' = "write_lexicon"
            /\ UNCHANGED <<cur_article, first_id>>
       ELSE /\ cur_article' = NewArticle
            /\ first_id' = NoId
            /\ pc' = "loop"
            /\ UNCHANGED drv
    /\ UNCHANGED <<search_out, cur_tag, article_count, result, tasks, mutex>>
    /\ UNCHANGED retry_vars

\* the event iterator ends
EndOfLoop ==
    /\ drv = "running"
    /\ pc = "loop"
    /\ drv' = "eos"
    /\ pc' = "write_lexicon"
    /\ UNCHANGED <<task_vars, search_out, cur_tag, cur_article, article_count,
                   result, first_id, tasks, mutex>>
    /\ UNCHANGED retry_vars

\* index_builder.lock().await of the code after the loop
LockForWrite ==
    /\ pc \in {"write_lexicon", "write_inverted_index"}
    /\ mutex = Unlocked
    /\ mutex' = DriverHolds
    /\ UNCHANGED <<task_vars, search_out, driver_vars, tasks, pc>>
    /\ UNCHANGED retry_vars

WriteLexicon ==
    /\ pc = "write_lexicon"
    /\ mutex = DriverHolds
    /\ Becomes(write_lexicon(TaskState))
    /\ mutex' = Unlocked
    /\ pc' = "write_inverted_index"
    /\ UNCHANGED <<search_out, driver_vars, tasks>>
    /\ UNCHANGED retry_vars

WriteInvertedIndex ==
    /\ pc = "write_inverted_index"
    /\ mutex = DriverHolds
    /\ \E done \in FinalizeRuns(TaskState) :
         /\ Becomes(write_inverted_index(TaskState, done))
         /\ result' = ReturnOf(write_inverted_index(TaskState, done), article_count)
    /\ mutex' = Unlocked
    /\ pc' = "returned"
    /\ UNCHANGED <<search_out, cur_tag, cur_article, article_count, drv, first_id,
                   tasks>>
    /\ UNCHANGED retry_vars

NextTasks ==
    \/ StartElement
    \/ EndElementAwait
    \/ Characters
    \/ TaskStep
    \/ ResumeAfterAwait
    \/ StreamError
    \/ EndOfLoop
    \/ LockForWrite
    \/ WriteLexicon
    \/ WriteInvertedIndex

SpecTasks == InitDriver /\ [][NextTasks]_vars

\* ------------------------------------- execute_with_retry: SpecRetry
\* execute_with_retry followed from one await point to the next: the begin of
\* the transaction, the statement, the commit with the decision that follows
\* it.
QUERY_RETRY_LIMIT == 10

\* SqlState::T_R_SERIALIZATION_FAILURE and SqlState::T_R_DEADLOCK_DETECTED
T_R_SERIALIZATION_FAILURE == "40001"
T_R_DEADLOCK_DETECTED == "40P01"

\* the codes of the errors a statement or a commit may end with: the two
\* above, unique_violation, and "" for an error that carries no SqlState (a
\* closed connection)
SqlCodes == {T_R_SERIALIZATION_FAILURE, T_R_DEADLOCK_DETECTED, "23505", ""}

SqlOk(rows) == [kind |-> "Ok", code |-> "", rows |-> rows]

SqlError(code) == [kind |-> "Err", code |-> code, rows |-> 0]

\* should_retry: .code() is one of the two, false when the error has no code
should_retry(sql_error) ==
    sql_error.code \in {T_R_SERIALIZATION_FAILURE, T_R_DEADLOCK_DETECTED}

\* what transaction.execute may return: Ok(num_rows) or an error
ExecuteOutcomes == {SqlOk(n) : n \in {0, 1}} \cup {SqlError(c) : c \in SqlCodes}

\* what transaction.commit may return
CommitOutcomes == {SqlOk(0)} \cup {SqlError(c) : c \in SqlCodes}

RetryErr(what) == [status |-> "Err", rows |-> 0, what |-> what]

\* the iteration ends with "continue"
Continue == [status |-> "continue", rows |-> 0, what |-> ""]

\* the if on result_commit and the match on result that follow the commit:
\* Continue, or the value returned
Decide(res, res_commit) ==
    IF res_commit.kind = "Err" /\ should_retry(res_commit)
    THEN Continue
    ELSE IF res.kind = "Ok"
    THEN [status |-> "Ok", rows |-> res.rows, what |-> ""]
    ELSE IF should_retry(res)
    THEN Continue
    ELSE RetryErr("Error executing query")

\* connection.transaction().await with its "?", at the head of an iteration
Transaction ==
    /\ retry_pc = "loop"
    /\ attempt < QUERY_RETRY_LIMIT
    /\ attempt' = attempt + 1
    /\ txn_result' = NoOutcome
    /\ result_commit' = NoOutcome
    /\ \E begun \in BOOLEAN :
         IF begun
         THEN /\ retry_pc' = "execute"
              /\ UNCHANGED retry_out
         ELSE /\ retry_pc' = "returned"
              /\ retry_out' = RetryErr("transaction")
    /\ UNCHANGED <<task_vars, search_out, driver_vars, conc_vars>>

\* transaction.execute(query, params).await
Execute ==
    /\ retry_pc = "execute"
    /\ \E r \in ExecuteOutcomes : txn_result' = r
    /\ retry_pc' = "commit"
    /\ UNCHANGED <<attempt, result_commit, retry_out>>
    /\ UNCHANGED <<task_vars, search_out, driver_vars, conc_vars>>

\* transaction.commit().await and the rest of the iteration
Commit ==
    /\ retry_pc = "commit"
    /\ \E r \in CommitOutcomes :
         /\ result_commit' = r
         /\ IF Decide(txn_result, r) = Continue
            THEN /\ retry_pc' = "loop"
                 /\ UNCHANGED retry_out
            ELSE /\ retry_pc' = "returned"
                 /\ retry_out' = Decide(txn_result, r)
    /\ UNCHANGED <<attempt, txn_result>>
    /\ UNCHANGED <<task_vars, search_out, driver_vars, conc_vars>>

\* the loop ends after QUERY_RETRY_LIMIT iterations
RetryLimit ==
    /\ retry_pc = "loop"
    /\ attempt = QUERY_RETRY_LIMIT
    /\ retry_pc' = "returned"
    /\ retry_out' = RetryErr("Error executing query: Reached retry limit")
    /\ UNCHANGED <<attempt, txn_result, result_commit>>
    /\ UNCHANGED <<task_vars, search_out, driver_vars, conc_vars>>

NextRetry == Transaction \/ Execute \/ Commit \/ RetryLimit

SpecRetry == Init /\ [][NextRetry]_vars

\* ------------------------------------------------------------ properties
\* what the properties below measure the builder against

\* the tokens of the i-th ingested article
TokensOf(i) == tokenize(ingested[i].text)

\* the occurrences of tok in toks
Occurrences(tok, toks) == Cardinality({i \in DOMAIN toks : toks[i] = tok})

\* the ingested articles have pairwise distinct ids
DistinctIds ==
    \A i, j \in DOMAIN ingested : i # j => ingested[i].id # ingested[j].id

\* the index of the first "\n" of f, or Len(f) + 1
FirstNL(f) ==
    IF \E i \in DOMAIN f : f[i] = NL
    THEN CHOOSE i \in DOMAIN f : f[i] = NL /\ \A j \in 1..(i - 1) : f[j] # NL
    ELSE Len(f) + 1

\* the lines of f, without their "\n"
RECURSIVE SplitLines(_)
SplitLines(f) ==
    IF Len(f) = 0 THEN <<>>
    ELSE <<SubSeq(f, 1, FirstNL(f) - 1)>> \o SplitLines(SubSeq(f, FirstNL(f) + 1, Len(f)))

IsBlank(line) == Len(line) = 0

\* the entries <<article_id, term_frequency>> of the non-blank lines of f
EntriesOf(f) ==
    LET lines == SelectSeq(SplitLines(f), LAMBDA l : ~IsBlank(l))
    IN [i \in DOMAIN lines |-> <<lines[i][1].v, lines[i][3].v>>]

\* the postings file of token id t, empty when there is none
FileOf(t) ==
    IF PostingsPath(t) \in DOMAIN files THEN files[PostingsPath(t)] ELSE <<>>

BufferOf(t) == IF t \in DOMAIN inv_index THEN inv_index[t] ELSE <<>>

\* the entries appended for tok so far: one per ingested article holding it
AppendedFor(tok) ==
    LET idx == SelectSeq([i \in DOMAIN ingested |-> i],
                         LAMBDA i : tok \in Range(TokensOf(i)))
    IN [k \in DOMAIN idx |->
          <<ingested[idx[k]].id, Occurrences(tok, TokensOf(idx[k]))>>]

\* every token ingested so far, in ingest order
RECURSIVE TokenHistory(_)
TokenHistory(n) == IF n = 0 THEN <<>> ELSE TokenHistory(n - 1) \o TokensOf(n)

\* the 0-based rank of tok among the distinct tokens of h, in first-seen order
FirstSeenRank(tok, h) ==
    LET first == CHOOSE i \in DOMAIN h : h[i] = tok /\ \A j \in 1..(i - 1) : h[j] # tok
    IN Cardinality({h[j] : j \in 1..(first - 1)})

\* C1: after a build that ingested articles with pairwise distinct ids, had no
\* spill failure and finalized, the postings file of every token T of every
\* ingested article A holds exactly one line for A, that line is "A c" with c
\* the occurrences of T in A, and the file holds no entry for an article
\* without T.
C1_PostingsCompleteness ==
    (phase = "finalized" /\ ~spill_failed /\ DistinctIds) =>
        /\ \A i \in DOMAIN ingested : \A tok \in Range(TokensOf(i)) :
             /\ tok \in DOMAIN token_to_id
             /\ LET lines == SplitLines(FileOf(token_to_id[tok]))
                    mine == {k \in DOMAIN lines :
                               ~IsBlank(lines[k]) /\ lines[k][1] = Num(ingested[i].id)}
                IN /\ Cardinality(mine) = 1
                   /\ \A k \in mine :
                        lines[k] = <<Num(ingested[i].id), SP,
                                     Num(Occurrences(tok, TokensOf(i)))>>
        /\ \A tok \in DOMAIN token_to_id :
             \A e \in Range(EntriesOf(FileOf(token_to_id[tok]))) :
                \E i \in DOMAIN ingested :
                   ingested[i].id = e[1] /\ tok \in Range(TokensOf(i))

\* a finalized build of three articles with distinct ids, in which a token's
\* file holds a batch spilled during ingest and a batch spilled by finalize
C1_Witness ==
    /\ phase = "finalized" /\ ~spill_failed /\ DistinctIds
    /\ Len(ingested) = 3
    /\ \E t \in DOMAIN id_to_token : Len(EntriesOf(FileOf(t))) = 3
    /\ \E i \in DOMAIN ingested : \E tok \in Range(TokensOf(i)) :
         Occurrences(tok, TokensOf(i)) = 2

\* C2: the id-to-token map and the token-to-id map are inverses of each
\* other and the assigned token ids are exactly 0 .. cur_token_id - 1.
C2_LexiconBijection ==
    /\ DOMAIN id_to_token = 0..(cur_token_id - 1)
    /\ \A id \in DOMAIN id_to_token :
         /\ id_to_token[id] \in DOMAIN token_to_id
         /\ token_to_id[id_to_token[id]] = id
    /\ \A tok \in DOMAIN token_to_id :
         /\ token_to_id[tok] \in DOMAIN id_to_token
         /\ id_to_token[token_to_id[tok]] = tok

\* three tokens have ids, after a token was seen again in a later article
C2_Witness ==
    /\ cur_token_id = 3
    /\ Len(ingested) >= 2
    /\ \E tok \in Range(TokensOf(1)) : tok \in Range(TokensOf(2))

\* the id of every ingested token is its first-seen rank in the ingest history
C3_RankIsId ==
    LET h == TokenHistory(Len(ingested))
    IN \A tok \in Range(h) :
          tok \in DOMAIN token_to_id /\ token_to_id[tok] = FirstSeenRank(tok, h)

\* a step never changes the id of a token that has one
C3_IdsKept ==
    \A tok \in DOMAIN token_to_id :
       tok \in DOMAIN token_to_id' /\ token_to_id'[tok] = token_to_id[tok]

\* C3: the id of a token is its 0-based rank among the distinct tokens in
\* first-seen order (a function of the ingest sequence alone), and an
\* assigned id never changes.
C3_TokenIdMonotonicity == []C3_RankIsId /\ [][C3_IdsKept]_vars

\* a later article brought a new token after tokens the lexicon already had
C3_Witness ==
    /\ Len(ingested) >= 2
    /\ \E tok \in Range(TokensOf(2)) :
         /\ tok \notin Range(TokensOf(1))
         /\ token_to_id[tok] = 2
    /\ \E tok \in Range(TokensOf(2)) : tok \in Range(TokensOf(1))

\* the last ingested article with this id
LastWithId(id) ==
    CHOOSE i \in DOMAIN ingested :
       ingested[i].id = id /\ \A j \in DOMAIN ingested : ingested[j].id = id => j <= i

\* C4: the length table holds, for every ingested article id, the number of
\* tokens (with repetitions) of the article last ingested under that id;
\* ingesting articles with other ids leaves the entry as it is.
C4_ArticleLength ==
    /\ DOMAIN doc_lengths = {ingested[i].id : i \in DOMAIN ingested}
    /\ \A id \in DOMAIN doc_lengths :
         doc_lengths[id] = Len(tokenize(ingested[LastWithId(id)].text))

\* an article of three tokens, then one of two tokens under another id
C4_Witness ==
    /\ Len(ingested) >= 2
    /\ ingested[1].id # ingested[2].id
    /\ \A i \in DOMAIN ingested : i > 1 => ingested[i].id # ingested[1].id
    /\ Len(TokensOf(1)) = 3 /\ doc_lengths[ingested[1].id] = 3
    /\ Len(TokensOf(2)) = 2 /\ doc_lengths[ingested[2].id] = 2

\* C5: while no spill has failed, for every token the entries of its postings
\* file followed by the entries of its buffer are the entries appended for
\* it so far, in order.
C5_PostingsPartition ==
    ~spill_failed =>
        \A tok \in DOMAIN token_to_id :
           EntriesOf(FileOf(token_to_id[tok])) \o BufferOf(token_to_id[tok])
              = AppendedFor(tok)

\* a token with a spilled batch on disk and a later entry in its buffer
C5_Witness ==
    /\ ~spill_failed
    /\ \E t \in DOMAIN inv_index :
         /\ Len(EntriesOf(FileOf(t))) >= 2
         /\ Len(inv_index[t]) >= 1

\* C6: after finalize has completed without error every token id of the
\* lexicon has exactly one postings file and every buffer is empty.
C6_FinalizePostcondition ==
    phase = "finalized" =>
        /\ \A t \in DOMAIN id_to_token :
             Cardinality({path \in DOMAIN files : path[2] = t}) = 1
        /\ \A t \in DOMAIN inv_index : inv_index[t] = <<>>

\* a finalized build with three lexicon entries
C6_Witness ==
    /\ phase = "finalized"
    /\ cur_token_id = 3
    /\ \A t \in DOMAIN id_to_token : Len(EntriesOf(FileOf(t))) >= 1

\* the map a reader that skips blank lines returns for f
EntryMap(f) ==
    LET es == EntriesOf(f)
    IN [a \in {es[i][1] : i \in DOMAIN es} |->
          es[CHOOSE i \in DOMAIN es :
               es[i][1] = a /\ \A j \in DOMAIN es : es[j][1] = a => j <= i][2]]

\* C7: reading any postings file of an index built without I/O error from
\* articles with distinct ids succeeds and returns the map of its non-blank
\* lines, also when the file holds blank lines.
C7_ReaderTolerance ==
    (phase = "finalized" /\ io_errors = 0 /\ DistinctIds) =>
        \A path \in DOMAIN files :
           LET r == read_postings_list_file(files[path])
           IN r.ok /\ r.map = EntryMap(files[path])

\* the last search ran over a finalized index that holds an article
SearchedIndex ==
    /\ search_out.status # "none"
    /\ phase = "finalized"
    /\ DOMAIN lengths_file.map # {}

\* C8: a search over an index that holds an article returns normally (it does
\* not panic) with at most k results, for every k, also when k exceeds the
\* number of articles.
C8_TopKTruncation ==
    SearchedIndex =>
        /\ search_out.status # "panic"
        /\ Len(search_out.results) <= search_out.k

\* C9: over a finalized index that holds an article, a query none of whose
\* tokens is in the lexicon returns Ok with an empty result list.
C9_UnknownTermQuery ==
    (SearchedIndex /\ QueryTokenIds(lexicon_file.map, search_out.query) = <<>>)
    => (search_out.status = "Ok" /\ search_out.results = <<>>)

\* C10: the driver never completes more than MAX_ARTICLES articles, and when
\* it stops at the cap it has completed exactly MAX_ARTICLES articles.
C10_BuildCap ==
    /\ article_count <= MAX_ARTICLES
    /\ drv = "cap" => article_count = MAX_ARTICLES

\* C11: character data of a first <id> that is no valid non-negative integer
\* makes the build return an error; the driver never ends in a panic.
C11_CorruptedIdIsError == drv # "panic"

\* C18: once the first <id> of the article under construction has been read,
\* the article's id is the value of that element's character data, whatever
\* <id> elements follow it.
C18_FirstIdWins ==
    (first_id # NoId /\ drv # "panic" /\ ParseU32(first_id).ok) =>
        cur_article.id = ParseU32(first_id).v

\* the stream error left the build as it was and returned the Err with the id
\* of the article under construction
C12_Aborted ==
    drv = "err" =>
        /\ result.status = "Err"
        /\ result.what = "Failed to parse XML at index"
        /\ result.id = cur_article.id
        /\ phase = "building"
        /\ lexicon_file = NoFile /\ lengths_file = NoFile

\* nothing is submitted or written after the stream error
C12_NothingAfter == drv = "err" => UNCHANGED <<task_vars, driver_vars>>

\* C12: an error event of the XML stream makes the build return an Err that
\* carries the id of the article under construction; no article is submitted
\* after it and the lexicon and postings write-out never runs.
C12_StreamFailureAborts == []C12_Aborted /\ [][C12_NothingAfter]_vars

\* a stream error while the second article, whose id has been read, is under
\* construction
C12_Witness ==
    /\ drv = "err"
    /\ calls = 1 /\ Len(ingested) = 1
    /\ parsed_id(cur_article)
    /\ result.id = 7 /\ ingested[1].id # 7

\* an index_article call that returned Err, or one in which a spill failed
ArticleFailed ==
    /\ calls' = calls + 1
    /\ \/ outcomes'[calls'] = "Err"
       \/ io_errors' > io_errors /\ Len(ingested') > Len(ingested)

\* C13: a failure in the processing of one article leaves the driver in its
\* event loop (or at the id cap); every completed page is submitted, after
\* failures too, and the end of the stream runs the write-out.
C13_ArticleFailureContinues ==
    /\ [](calls = article_count /\ Len(outcomes) = calls)
    /\ [](drv = "eos" => phase # "building")
    /\ [][ArticleFailed => (drv' = "running" \/ (drv' = "cap" /\ ReachedCap(cur_article)))]_vars

\* the store write of the first article failed, the second article was
\* ingested, and the end of the stream wrote the index out
C13_Witness ==
    /\ drv = "eos" /\ phase = "finalized"
    /\ outcomes = <<"Err", "Ok">>
    /\ Len(ingested) = 1
    /\ ingested[1].id \in DOMAIN lengths_file.map

\* the cap the specification gives for the backlog of article tasks; the
\* driver of index_engine.rs has no such constant
MAX_TASKS == 50

\* the article tasks in flight: created and not yet returned
InFlight == Cardinality({i \in DOMAIN tasks : tasks[i].ret = "none"})

\* while a task is in flight the driver reads no event: it takes no article,
\* changes nothing of the article under construction and does not leave the
\* loop
C15_Parked ==
    InFlight > 0 => /\ Len(tasks') = Len(tasks)
                    /\ article_count' = article_count
                    /\ cur_article' = cur_article
                    /\ cur_tag' = cur_tag
                    /\ pc' = "await"

\* C15: the article tasks in flight never exceed MAX_TASKS (the driver
\* awaits each task, so they never exceed one), and from the moment a task is
\* in flight the driver accepts no further article until none is.
C15_BoundedBacklog ==
    /\ [](InFlight <= 1 /\ InFlight <= MAX_TASKS)
    /\ [](InFlight > 0 => pc = "await")
    /\ [][C15_Parked]_vars

\* the second article's task is in flight and the driver is parked on it
C15_Witness ==
    /\ InFlight = 1
    /\ pc = "await"
    /\ Len(tasks) = 2 /\ tasks[2].at = 2

\* the code after the event loop has been entered
AfterLoop == pc \in {"write_lexicon", "write_inverted_index", "returned"}

\* every task created so far has returned
AllTasksDone == \A i \in DOMAIN tasks : tasks[i].ret # "none"

\* the write-out runs at most once, has run once when parse_dump returns, and
\* starts only when every submitted task has returned
C14_OnceAfterDrain ==
    /\ write_outs <= 1
    /\ write_outs = 1 => AfterLoop
    /\ (pc = "returned" /\ drv \in {"eos", "cap"}) => write_outs = 1
    /\ AfterLoop => (AllTasksDone /\ Len(tasks) = article_count
                     /\ Len(outcomes) = article_count)

\* once the code after the loop has been entered no article is submitted,
\* stored or ingested
C14_NoIngestAfter ==
    AfterLoop => /\ tasks' = tasks
                 /\ ingested' = ingested
                 /\ articles' = articles
                 /\ calls' = calls
                 /\ id_to_token' = id_to_token
                 /\ doc_lengths' = doc_lengths

\* C14: in a build whose stream ends or reaches the cap without a stream
\* error the write-out (finalize) runs exactly once, only after every
\* submitted article task has completed, and nothing is ingested after it
\* has started.
C14_FinalizeOnceAfterDrain == []C14_OnceAfterDrain /\ [][C14_NoIngestAfter]_vars

\* parse_dump has returned after two articles were ingested and written out
C14_Witness ==
    /\ pc = "returned" /\ drv = "eos"
    /\ write_outs = 1
    /\ Len(tasks) = 2 /\ Len(ingested) = 2
    /\ phase = "finalized"

\* task i holds the guard of the builder's mutex
Holds(i) ==
    /\ tasks[i].ret = "none"
    /\ \E k \in 1..(tasks[i].at - 1) : TaskProgram[k] = "lock"

\* at most one holder of the mutex, a task about to write the Article Store
\* holds no guard, and the builder's tables always describe whole articles
C16_Exclusive ==
    /\ \A i, j \in DOMAIN tasks : (Holds(i) /\ Holds(j)) => i = j
    /\ \A i \in DOMAIN tasks : Holds(i) <=> mutex = i
    /\ \A i \in DOMAIN tasks :
         (tasks[i].ret = "none" /\ TaskProgram[tasks[i].at] = "insert_article")
            => (~Holds(i) /\ mutex # i)
    /\ DOMAIN doc_lengths = {ingested[i].id : i \in DOMAIN ingested}
    /\ C2_LexiconBijection

\* the builder and its postings files change only in a step of the one
\* holder of the mutex, which releases it in that step; the Article Store
\* changes only in a step of a task that holds no guard
C16_UnderLock ==
    /\ (<<builder_vars, files, ingested>>' # <<builder_vars, files, ingested>>)
          => (mutex # Unlocked /\ mutex' = Unlocked)
    /\ articles' # articles => (mutex = Unlocked /\ mutex' = Unlocked)

\* C16: no two ingests, and no ingest and write-out step, run on the builder
\* at once; an article's update of lexicon, buffers and lengths, with the
\* spills it triggers, is one step under the mutex; the Article Store write
\* of a task is made without the mutex.
C16_BuilderMutualExclusion == []C16_Exclusive /\ [][C16_UnderLock]_vars

\* the second task holds the mutex, its article stored, the first ingested
C16_Witness ==
    /\ Len(tasks) = 2 /\ Holds(2) /\ mutex = 2
    /\ tasks[2].article.id \in DOMAIN articles
    /\ Len(ingested) = 1
    /\ tasks[2].article.id # tasks[1].article.id

\* the ingest of task i has begun: it has passed the lock
IngestBegun(i) == \E k \in 1..(tasks[i].at - 1) : TaskProgram[k] = "lock"

\* the articles of the tasks that returned Ok, in the order of the stream
RECURSIVE OkArticles(_)
OkArticles(n) ==
    IF n = 0 THEN <<>>
    ELSE IF tasks[n].ret = "Ok" THEN Append(OkArticles(n - 1), tasks[n].article)
    ELSE OkArticles(n - 1)

\* the tokens first seen in the i-th ingested article
FirstSeenIn(i) ==
    {tok \in Range(TokensOf(i)) : \A j \in 1..(i - 1) : tok \notin Range(TokensOf(j))}

\* C17: the articles are ingested in the order the stream completes them: the
\* ingest of a later article begins only when every earlier task has returned,
\* and a token first seen in an earlier article has a smaller id than a token
\* first seen in a later one.
C17_StreamOrderIsIndexOrder ==
    /\ \A i, j \in DOMAIN tasks : (i < j /\ IngestBegun(j)) => tasks[i].ret # "none"
    /\ AllTasksDone => ingested = OkArticles(Len(tasks))
    /\ \A a, b \in DOMAIN ingested :
         a < b => \A ta \in FirstSeenIn(a), tb \in FirstSeenIn(b) :
                     token_to_id[ta] < token_to_id[tb]

\* two articles ingested, the second with a token the first did not have
C17_Witness ==
    /\ Len(tasks) = 2 /\ AllTasksDone
    /\ Len(ingested) = 2
    /\ FirstSeenIn(1) # {} /\ FirstSeenIn(2) # {}
    /\ \E tok \in Range(TokensOf(2)) : tok \in Range(TokensOf(1))

\* the stored text of article a without its non-ASCII characters
AsciiText(a) == SelectSeq(articles[a].text, IsAscii)

\* the 0-based offsets at which a run of alphanumeric characters starts
RunStarts(text) ==
    {p \in 0..(Len(text) - 1) :
       is_alphanumeric(text[p + 1]) /\ (p = 0 \/ ~is_alphanumeric(text[p]))}

\* the run of alphanumeric characters that starts at offset p
RunAt(text, p) ==
    LET e == CHOOSE e \in (p + 1)..Len(text) :
                /\ \A i \in (p + 1)..e : is_alphanumeric(text[i])
                /\ (e = Len(text) \/ ~is_alphanumeric(text[e + 1]))
    IN SubSeq(text, p + 1, e)

\* the offsets at which the token tok occurs in text
TokenStarts(text, tok) ==
    {p \in RunStarts(Clean(text)) : stem(RunAt(Clean(text), p)) = tok}

\* the token ids of the last query
SearchedTokenIds == Range(QueryTokenIds(lexicon_file.map, search_out.query))

\* the query token ids whose token occurs in article a
PresentIn(a) ==
    {t \in SearchedTokenIds : TokenStarts(AsciiText(a), lexicon_file.map[t]) # {}}

\* "..." + the text from SNIPPET_OFFSET before position to SNIPPET_OFFSET
\* after it + "..."
Window(text, position) ==
    LET start == IF position > SNIPPET_OFFSET THEN position - SNIPPET_OFFSET ELSE 0
        end == IF position + SNIPPET_OFFSET > Len(text)
               THEN Len(text) ELSE position + SNIPPET_OFFSET
    IN Dots \o SubSeq(text, start + 1, end) \o Dots

\* the snippet of article a anchored at the first occurrence of token id t
SnippetAt(a, t) ==
    LET starts == TokenStarts(AsciiText(a), lexicon_file.map[t])
    IN Window(AsciiText(a), CHOOSE p \in starts : \A q \in starts : p <= q)

\* the largest element of a set of numbers
MaxOf(S) == CHOOSE x \in S : \A y \in S : y <= x

\* C19: the snippet of every result is cut around the first occurrence, in
\* the article, of the query token with the largest token id among the query
\* tokens that occur in the article.
C19_SnippetAnchor ==
    search_out.status = "Ok" =>
        \A i \in DOMAIN search_out.results :
           LET a == search_out.results[i].article_id
           IN /\ PresentIn(a) # {}
              /\ search_out.results[i].snippet = SnippetAt(a, MaxOf(PresentIn(a)))

\* a result whose article holds two query tokens that give different
\* snippets, and a result whose article holds only a query token that has not
\* the largest id of the query
C19_Witness ==
    /\ search_out.status = "Ok"
    /\ \E i \in DOMAIN search_out.results :
         LET a == search_out.results[i].article_id
         IN \E t \in PresentIn(a) :
               /\ t < MaxOf(PresentIn(a))
               /\ SnippetAt(a, t) # search_out.results[i].snippet
    /\ \E j \in DOMAIN search_out.results :
         LET a == search_out.results[j].article_id
         IN /\ PresentIn(a) # {}
            /\ MaxOf(PresentIn(a)) < MaxOf(SearchedTokenIds)

\* the first k entries of the ranking, or all of it when it is shorter
TopK ==
    SubSeq(search_out.scores, 1,
           IF search_out.k < Len(search_out.scores)
           THEN search_out.k ELSE Len(search_out.scores))

\* article a is not stored or was not loaded, or no query token occurs in its
\* body
Dropped(a) ==
    \/ a \notin DOMAIN articles
    \/ a \in search_out.unreadable
    \/ PresentIn(a) = {}

\* the score sign the last query gives article a
ScoreOf(a) ==
    LET ids == QueryTokenIds(lexicon_file.map, search_out.query)
    IN Signs(lengths_file.map, QueryTokenFreqs(ids), get_postings_lists(files, ids).map)[a]

\* the top-k articles that are not dropped, in ranking order
KeptOfTopK == SelectSeq(TopK, LAMBDA a : ~Dropped(a))

\* article a is among the k best of the ranking (every article is when the
\* index holds fewer than k)
InTopK(a) ==
    \/ a \in Range(TopK)
    \/ search_out.k > Cardinality(DOMAIN lengths_file.map)

\* C20: when an article of the top k cannot be loaded or holds no query
\* token while another article of the top k can be returned, the search
\* returns Ok with exactly the other articles of the top k, each with its
\* own score, in the order of the ranking.
C20_ResultLocalFailure ==
    (/\ SearchedIndex
     /\ search_out.status # "Err"
     /\ \E a, b \in DOMAIN lengths_file.map :
          /\ Dropped(a) /\ InTopK(a)
          /\ ~Dropped(b) /\ InTopK(b))
    => /\ search_out.status = "Ok"
       /\ Len(search_out.results) = Len(KeptOfTopK)
       /\ \A i \in DOMAIN search_out.results :
            /\ search_out.results[i].article_id = KeptOfTopK[i]
            /\ search_out.results[i].score = ScoreOf(KeptOfTopK[i])
            /\ search_out.results[i].title = articles[KeptOfTopK[i]].title

\* no postings file holds a blank line
NoBlankLine ==
    \A path \in DOMAIN files :
       \A i \in DOMAIN SplitLines(files[path]) : ~IsBlank(SplitLines(files[path])[i])

\* the step that ends the build leaves the postings file of every token id
\* whose buffer is empty as it was
EmptyBuffersUntouched ==
    (phase = "building" /\ phase' # "building") =>
        \A t \in DOMAIN inv_index :
           inv_index[t] = <<>> =>
               /\ (PostingsPath(t) \in DOMAIN files) = (PostingsPath(t) \in DOMAIN files')
               /\ PostingsPath(t) \in DOMAIN files =>
                      files'[PostingsPath(t)] = files[PostingsPath(t)]

\* C21: finalize leaves the postings file of a term whose buffer is empty
\* unchanged, and no postings file ever holds a blank line (finalize appends
\* no empty batch).
C21_FinalizeSpillsNonEmpty == []NoBlankLine /\ [][EmptyBuffersUntouched]_vars

\* an article has been submitted for every </page> observed so far, and for
\* nothing else
C22_OncePerPage == calls = article_count

\* a step submits at most one article, only together with the </page> it
\* counts, and it submits the working article; when the build goes on after
\* it, the working article is Article::new() again
C22_SubmitThenReset ==
    /\ calls' # calls =>
          /\ calls' = calls + 1
          /\ article_count' = article_count + 1
          /\ outcomes'[calls'] = "Ok" =>
                /\ ingested' = Append(ingested, cur_article)
                /\ articles'[cur_article.id] = cur_article
    /\ article_count' # article_count => calls' = calls + 1
    /\ (calls' # calls /\ drv' = "running") =>
          /\ cur_article' = NewArticle
          /\ first_id' = NoId

\* C22: an article is submitted exactly once per observed end of a <page>
\* element and at no other event, and after a submission that does not stop
\* the build the working article has the unset id, an empty title and an
\* empty text.
C22_CompletionAndReset == []C22_OncePerPage /\ [][C22_SubmitThenReset]_vars

\* a page with a title and a text was submitted, then a page without either,
\* and the build goes on
C22_Witness ==
    /\ drv = "running"
    /\ Len(ingested) = 2
    /\ ingested[1].title # <<>> /\ ingested[1].text # <<>>
    /\ ingested[2].title = <<>> /\ ingested[2].text = <<>>
    /\ cur_article = NewArticle

\* while no spill has failed every buffer is shorter than the threshold
C23_BelowThreshold ==
    ~spill_failed =>
        \A t \in DOMAIN inv_index : Len(inv_index[t]) < MAX_POSTINGS_LIST_SIZE

\* an ingest without spill failure whose entry brings a buffer to the
\* threshold ends with that buffer empty and its entries, the new one last,
\* appended to the term's file
C23_SpilledInSameStep ==
    (Len(ingested') = Len(ingested) + 1 /\ ~spill_failed') =>
        LET article == ingested'[Len(ingested')]
            toks == tokenize(article.text)
        IN \A tok \in Range(toks) :
              LET t == token_to_id'[tok]
              IN Len(BufferOf(t)) + 1 >= MAX_POSTINGS_LIST_SIZE =>
                    /\ inv_index'[t] = <<>>
                    /\ PostingsPath(t) \in DOMAIN files'
                    /\ EntriesOf(files'[PostingsPath(t)])
                         = EntriesOf(FileOf(t))
                             \o Append(BufferOf(t), <<article.id, Occurrences(tok, toks)>>)

\* C23: whenever an ingest has returned and no spill has failed, every term's
\* buffer holds fewer than MAX_POSTINGS_LIST_SIZE entries, and a buffer is
\* spilled and cleared in the ingest step in which it reaches that length.
C23_BoundedPostingsBuffer == []C23_BelowThreshold /\ [][C23_SpilledInSameStep]_vars

\* one term spilled at the threshold and buffering again, beside a term that
\* has not reached the threshold
C23_Witness ==
    /\ ~spill_failed
    /\ phase = "building"
    /\ \E t \in DOMAIN inv_index :
         /\ Len(EntriesOf(FileOf(t))) = MAX_POSTINGS_LIST_SIZE
         /\ Len(inv_index[t]) = 1
    /\ \E u \in DOMAIN inv_index :
         /\ PostingsPath(u) \notin DOMAIN files
         /\ Len(inv_index[u]) = MAX_POSTINGS_LIST_SIZE - 1

\* C24: execute_with_retry returns Ok(rows) only when, in the iteration that
\* returned, the statement and the commit both succeeded; rows is the
\* statement's row count.
C24_OkOnlyIfCommitted ==
    retry_out.status = "Ok" =>
        /\ txn_result.kind = "Ok"
        /\ result_commit.kind = "Ok"
        /\ retry_out.rows = txn_result.rows

\* a </page> observed before any <id> of its article stores and indexes
\* nothing
C25_UnsetIdSkipped ==
    (article_count' = article_count + 1 /\ first_id = NoId) =>
        /\ articles' = articles
        /\ ingested' = ingested
        /\ doc_lengths' = doc_lengths

\* C25: a <page> that closes without any <id> having been seen is neither
\* stored nor indexed: every article passed to the Article Store and the
\* Index Builder has an id parsed from an <id> element.
C25_NoSentinelArticle == [][C25_UnsetIdSkipped]_vars

\* an ingest step gives every token of the article its entry, whatever
\* spills fail in it: a buffer whose spill fails keeps all its entries and
\* the new one, and a spill that succeeds appends the whole buffer, with the
\* entries kept from failed spills, to the term's file
C26_IngestStep ==
    (Len(ingested') = Len(ingested) + 1) =>
        LET article == ingested'[Len(ingested')]
            toks == tokenize(article.text)
        IN /\ \A tok \in Range(toks) :
                LET t == token_to_id'[tok]
                    list == Append(BufferOf(t), <<article.id, Occurrences(tok, toks)>>)
                IN \/ /\ inv_index'[t] = list
                      /\ Len(list) < MAX_POSTINGS_LIST_SIZE =>
                            (IF PostingsPath(t) \in DOMAIN files
                             THEN files'[PostingsPath(t)] = files[PostingsPath(t)]
                             ELSE PostingsPath(t) \notin DOMAIN files')
                   \/ /\ Len(list) >= MAX_POSTINGS_LIST_SIZE
                      /\ inv_index'[t] = <<>>
                      /\ PostingsPath(t) \in DOMAIN files'
                      /\ files'[PostingsPath(t)] = FileOf(t) \o PostingsListString(list)
           /\ doc_lengths'[article.id] = Len(toks)

\* C26: a spill that fails during ingest (before or in the middle of its
\* write) leaves the term's buffer unchanged, the ingest goes on with the
\* remaining tokens of the article, and the next successful spill of the term
\* writes the retained entries.
C26_FailedSpillLosesNothing == [][C26_IngestStep]_vars

\* a spill of a term failed after a part of its batch was written, and a
\* later spill of the term has written the retained entries after that part
C26_Witness ==
    /\ spill_failed
    /\ phase = "building"
    /\ \E tok \in DOMAIN token_to_id :
         LET t == token_to_id[tok]
             a == AppendedFor(tok)
         IN /\ Len(a) = MAX_POSTINGS_LIST_SIZE + 1
            /\ inv_index[t] = <<>>
            /\ \E n \in TornBytes \ {0} :
                  FileOf(t) = SubSeq(PostingsListString(SubSeq(a, 1, MAX_POSTINGS_LIST_SIZE)),
                                     1, n)
                                \o PostingsListString(a)

\* the article ids the index holds: those of the length table, of the
\* postings buffers, and of every article build_index was called with (the
\* ids of the postings files)
IndexedIds ==
    DOMAIN doc_lengths
      \cup UNION {{inv_index[t][i][1] : i \in DOMAIN inv_index[t]} : t \in DOMAIN inv_index}
      \cup {ingested[i].id : i \in DOMAIN ingested}

\* C27: every article id of the postings buffers, the postings files or the
\* length table has a stored article record (the ingest of an article runs
\* only after its Article Store write succeeded).
C27_IndexedImpliesStored == \A id \in IndexedIds : id \in DOMAIN articles

====
